---- MODULE Spec2Model ----
(***************************************************************************)
(* The market function of the repository: the request handler, its cache,  *)
(* its data loaders and their parsers, in the revisions the repository     *)
(* holds side by side:                                                     *)
(*   part_000  src/unnamed/part_000   (handler-level cache, static yields) *)
(*   part_001  src/unnamed/part_001   (loader-level cache, WGB parser)     *)
(*   part_002  src/unnamed/part_002   (no cache, robust parser)            *)
(*   market    src/netlify/functions/market.js (no cache, label parser)    *)
(* The handler of src/unnamed/part_003 (lines 6-34) is the handler of      *)
(* part_000 line for line, but for the status of its catch block; the      *)
(* loaders it calls (fetchYieldUnified, fetchCdsUnified) are not in the    *)
(* file, and it is not deployed here; its horizon resolvers and the        *)
(* providers that call them are modelled as calls (SpecResolver), and one  *)
(* fetch exchange of each fetcher as a machine of its own (SpecFetch).     *)
(* The yield extractors are applied to small texts (SpecExtract); two      *)
(* requests handled at the same time, and provider_cds5y of part_003 with  *)
(* its page cache, are in SpecConcurrent.                                  *)
(* A behaviour deploys one revision (rev) and serves requests against an   *)
(* upstream whose documents change over time.  Rates are in hundredths of  *)
(* a percent, CDS spreads in basis points, the clock in milliseconds.      *)
(***************************************************************************)
EXTENDS Integers, Sequences, FiniteSets, TLC

VARIABLES rev, now, upstream, CACHE, origin, req, resp, trace, changed,
          reqs, call, ft, flights, ui

vars ==
  <<rev, now, upstream, CACHE, origin, req, resp, trace, changed,
    reqs, call, ft, flights, ui>>

(***************************************************************************)
(* Bounds of the model.                                                    *)
(***************************************************************************)
\* the clock advances MaxTicks times, TickMs at a time
MaxTicks == 2

\* half a freshness window
TickMs == 450 * 1000

DAY_MS == 24 * 60 * 60 * 1000

\* the process starts one tick before midnight (UTC) of day 0
StartMs == DAY_MS - TickMs

EndMs == StartMs + MaxTicks * TickMs

(***************************************************************************)
(* Values of the program.                                                  *)
(***************************************************************************)
\* JavaScript null, and the NaN parseFloat returns for a token such as ".,"
NULL == -1

NAN == -2

\* (the window written in seconds)
CACHE_TTL_seconds == 15 * 60

CACHE_TTL_MS == 15 * 60 * 1000

Revs == {"part_000", "part_001", "part_002", "market"}

\* the (type, country, h) query parameters of the requests of the model:
\* supported triples, and triples with an unsupported type or country
Requests ==
  {<<"yield", "US", "today">>, <<"cds", "US", "1w">>, <<"fx", "US", "today">>,
   <<"yield", "XX", "today">>, <<"cds", "XX", "1w">>}

allowedTypes == {"yield", "cds"}

allowedCountries == {"US", "DE", "GB", "JP", "CA"}

allowedH == {"today", "1w", "1m"}

\* new Date().toISOString().slice(0, 10) at clock t: a YYYY-MM-DD date,
\* identified by its day number
isoToday(t) == [fmt |-> "YYYY-MM-DD", day |-> t \div DAY_MS]

countryName(ccy) ==
  CASE ccy = "US" -> "United States"
    [] ccy = "DE" -> "Germany"
    [] ccy = "GB" -> "United Kingdom"
    [] ccy = "JP" -> "Japan"
    [] ccy = "CA" -> "Canada"
    [] OTHER -> ccy

\* the tenor order of part_001 (the keys of TENOR_LABEL and TENOR_ALIASES too)
TENORS == <<"1M", "3M", "6M", "1Y", "2Y", "5Y", "7Y", "10Y", "20Y", "30Y">>

TenorSet == {TENORS[i] : i \in 1..Len(TENORS)}

\* DEMO_CURVE of part_001, DEMO_TENORS of part_002 and market.js
DEMO_CURVE ==
  [t \in TenorSet |->
     CASE t = "1M" -> 535 [] t = "3M" -> 525 [] t = "6M" -> 515
       [] t = "1Y" -> 505 [] t = "2Y" -> 490 [] t = "5Y" -> 470
       [] t = "7Y" -> 460 [] t = "10Y" -> 455 [] t = "20Y" -> 450
       [] t = "30Y" -> 445]

\* the closed enumeration of tenor codes (the keys of `ten`)
TenorCodes ==
  {"1M", "3M", "6M", "1Y", "2Y", "3Y", "5Y", "7Y", "10Y", "20Y", "30Y"}

DEMO_CDS_5Y == 50

\* the demo spread part_002 and market.js write inline
DEMO_CDS_100 == 100

(***************************************************************************)
(* Upstream documents.  A document is what the parsers of the repository   *)
(* find in it: each field is the result of one search strategy.            *)
(*   label   tenor -> rate next to the tenor's label (findNearestPercent,  *)
(*           findByLabelCheerio, findNearAliases)                          *)
(*   struct  tenor -> rate of the JSON-ish / same-row patterns             *)
(*           (structuralFallbacks)                                         *)
(*   table   label -> rate of the <tr><td> rows (parseWgbYield, A)         *)
(*   js      tenor -> rate of the ["10Y",4.55] pairs (parseWgbYield, B)    *)
(*   inv5y   country name -> spread after "5Y" (parseInvestingCds)         *)
(*   bp      country name -> spread before "bp" (parseWGBCds)              *)
(*   cds5a, cds5b  the tokens of the two patterns of parseWgbCds           *)
(*   bp5y    the spread of parseCds5y / parseWGBcds5y                      *)
(***************************************************************************)
Idx(t) == CHOOSE i \in 1..Len(TENORS) : TENORS[i] = t

First(n) == {TENORS[i] : i \in 1..n}

Pts(labels, base) == [t \in labels |-> base + Idx(t)]

NoPts == [t \in {} |-> 0]

DocIds == {"DocBlank", "DocThree", "DocFour", "DocFive"}

Doc(id) ==
  CASE id = "DocBlank" ->
         [empty |-> TRUE, label |-> NoPts, struct |-> NoPts, table |-> NoPts,
          js |-> NoPts, inv5y |-> NoPts, bp |-> NoPts,
          cds5a |-> NULL, cds5b |-> NULL, bp5y |-> NULL]
    [] id = "DocThree" ->
         [empty |-> FALSE, label |-> Pts(First(3), 100), struct |-> NoPts,
          table |-> Pts(First(3), 100), js |-> NoPts, inv5y |-> NoPts,
          bp |-> NoPts, cds5a |-> NULL, cds5b |-> NULL, bp5y |-> NULL]
    [] id = "DocFour" ->
         [empty |-> FALSE, label |-> Pts(First(4), 200), struct |-> NoPts,
          table |-> Pts(First(4), 200), js |-> NoPts,
          inv5y |-> ("United States" :> 87), bp |-> ("United States" :> 91),
          cds5a |-> NAN, cds5b |-> 75, bp5y |-> 91]
    [] id = "DocFive" ->
         [empty |-> FALSE, label |-> Pts(First(3), 300),
          struct |-> Pts(First(5), 310),
          table |-> ("3Y" :> 333) @@ ("1M" :> 334), js |-> Pts(First(5), 320),
          inv5y |-> NoPts, bp |-> ("United States" :> 93),
          cds5a |-> 76, cds5b |-> NULL, bp5y |-> NULL]

\* what a fetch of a source ends in: fetch() rejects, the status is not in
\* the success range, reading the body rejects, or a document arrives
Failures == {"neterr", "http", "bodyerr"}

Outcomes == Failures \cup DocIds

IsDoc(o) == o \in DocIds

\* what a source serves: a document, or nothing ("down": every fetch fails,
\* in one of the three ways)
Serving(o) == IF o \in Failures THEN "down" ELSE o

Sources == {"investing", "wgb_cds", "wgb_country", "wgb_cdshist"}

(***************************************************************************)
(* State.                                                                  *)
(*   rev       the revision deployed                                       *)
(*   now       Date.now()                                                  *)
(*   upstream  what each source serves at present ("unknown" until it is   *)
(*             fetched for the first time after it changed)                *)
(*   CACHE     the Map of the module: key -> [ts, data]                    *)
(*   req       the request being handled, suspended at an await            *)
(*   resp      the response of the last request that completed             *)
(*   origin, trace, changed   history: the response body that accompanied  *)
(*             each cache write; how the last request was resolved;        *)
(*             whether a source changed since the last response            *)
(*   reqs      the requests the clients of the behaviour send              *)
(*   call      a call of one of the helper functions, and what it returned *)
(*   ft        one fetch exchange: the fetcher, its loop, its timer        *)
(*   flights   the requests of two clients handled at the same time, each  *)
(*             suspended at an await or answered                           *)
(*   ui        the page of the frontend: the invocations of loadAll that   *)
(*             wait for their loads, the chart and the status displayed    *)
(***************************************************************************)
Idle ==
  [pc |-> "idle", type |-> "", country |-> "", h |-> "", t0 |-> 0,
   src |-> "", got |-> <<>>, entry |-> "none"]

NoTrace ==
  [type |-> "", country |-> "", h |-> "", t0 |-> 0, path |-> "none",
   got |-> <<>>, entry |-> "none", found |-> NULL, again |-> FALSE]

NoResp == [statusCode |-> 0, body |-> [none |-> TRUE]]

NoCall == [fn |-> "none"]

NoFetch == [fn |-> "none"]

Clients == {"A", "B"}

\* let page = CACHE.get(cacheKey) when the Map has no such key
NoCachedPage == [held |-> FALSE, ts |-> 0, html |-> "", src |-> ""]

NoFlight ==
  [pc |-> "idle", q |-> <<>>, t0 |-> 0, entry |-> "none", src |-> "",
   got |-> <<>>, page |-> NoCachedPage, resp |-> NoResp]

NoFlights == [c \in Clients |-> NoFlight]

\* the page before the script runs: no chart (let chart), no status
NoUi ==
  [seq |-> 0, waiting |-> {},
   chart |-> [by |-> 0, kind |-> "none", h |-> ""],
   status |-> [by |-> 0, text |-> ""]]

\* the state of the handler before the first request
Idling ==
  /\ now = StartMs
  /\ upstream = [s \in Sources |-> "unknown"]
  /\ CACHE = <<>>
  /\ origin = <<>>
  /\ req = Idle
  /\ resp = NoResp
  /\ trace = NoTrace
  /\ changed = FALSE

Init ==
  /\ rev \in Revs
  /\ Idling
  /\ reqs = Requests
  /\ call = NoCall
  /\ ft = NoFetch
  /\ flights = NoFlights
  /\ ui = NoUi

\* (an entry that is replaced keeps its payload and takes the new time)
cacheSet_mixture(C, key, entry) ==
  [k \in DOMAIN C \cup {key} |->
     IF k # key THEN C[k]
     ELSE IF key \in DOMAIN C THEN [ts |-> entry.ts] @@ C[key]
     ELSE entry]

\* CACHE.set(key, entry)
cacheSet(C, key, entry) ==
  [k \in DOMAIN C \cup {key} |-> IF k = key THEN entry ELSE C[k]]

\* (an entry exactly CACHE_TTL_MS old still served)
cacheHit_inclusive(C, key, t) ==
  key \in DOMAIN C /\ t - C[key].ts <= CACHE_TTL_MS

\* cached && now - cached.ts < CACHE_TTL_MS
cacheHit(C, key, t) == key \in DOMAIN C /\ t - C[key].ts < CACHE_TTL_MS

\* the request completes: the response goes out.  again: it follows a
\* request for the same parameters that arrived less than 15 minutes
\* earlier, both are answered with status 200, and no source has changed
\* since that response
Respond(type, country, h, t0, got, entry, r, path, found) ==
  /\ resp' = r
  /\ trace' = [type |-> type, country |-> country, h |-> h, t0 |-> t0,
               path |-> path, got |-> got, entry |-> entry, found |-> found,
               again |-> /\ trace.path # "none"
                         /\ trace.type = type
                         /\ trace.country = country
                         /\ trace.h = h
                         /\ t0 - trace.t0 < 15 * 60 * 1000
                         /\ resp.statusCode = 200
                         /\ r.statusCode = 200
                         /\ ~changed]
  /\ req' = Idle
  /\ changed' = FALSE

\* the request suspends at `await fetch(...)` of source s
Await(type, country, h, t0, got, entry, s) ==
  /\ req' = [pc |-> "fetch", type |-> type, country |-> country, h |-> h,
             t0 |-> t0, src |-> s, got |-> got, entry |-> entry]
  /\ UNCHANGED <<resp, trace, changed, CACHE, origin>>

\* the awaited fetch settles with outcome o, which is what the source serves
Settles(o) ==
  /\ req.pc = "fetch"
  /\ o \in Outcomes
  /\ upstream[req.src] \in {"unknown", Serving(o)}
  /\ upstream' = [upstream EXCEPT ![req.src] = Serving(o)]

\* what the cache holds under the key of a request arriving at t: no
\* entry, an entry younger than 15 minutes, or an older one
EntryAt(key, t) ==
  IF key \notin DOMAIN CACHE THEN "none"
  ELSE IF t - CACHE[key].ts < 15 * 60 * 1000 THEN "fresh" ELSE "stale"

(***************************************************************************)
(* The environment: the clock and the upstream sources.                    *)
(***************************************************************************)
Tick ==
  /\ UNCHANGED <<reqs, call, ft, flights, ui>>
  /\ now < EndMs
  /\ now' = now + TickMs
  /\ UNCHANGED <<rev, upstream, CACHE, origin, req, resp, trace, changed>>

\* the document (or the failure) a source serves changes
UpstreamChange(s) ==
  /\ UNCHANGED <<reqs, call, ft, flights, ui>>
  /\ upstream[s] # "unknown"
  /\ upstream' = [upstream EXCEPT ![s] = "unknown"]
  /\ changed' = TRUE
  /\ UNCHANGED <<rev, now, CACHE, origin, req, resp, trace>>

(***************************************************************************)
(* part_000: validation, handler-level cache, static yields, CDS scraped   *)
(* from investing.com, then worldgovernmentbonds.com.                      *)
(***************************************************************************)
resp_000(statusCode, obj, cached) == [statusCode |-> statusCode, body |-> obj]

loadYield_000(country, h, t) ==
  [asOf |-> isoToday(t),
   tenors |-> ("2Y" :> 150) @@ ("5Y" :> 170) @@ ("10Y" :> 200) @@ ("30Y" :> 250)]

\* (a demo spread that follows the horizon)
demoCds_byHorizon(country, h) == IF h = "today" THEN 25 ELSE 30

demoCds(country, h) ==
  CASE country = "US" -> 25
    [] country = "DE" -> 20
    [] country = "GB" -> 40
    [] country = "JP" -> 35
    [] country = "CA" -> 22
    [] OTHER -> 50

parseInvestingCds(html, name) ==
  IF name \in DOMAIN Doc(html).inv5y THEN Doc(html).inv5y[name] ELSE NULL

parseWGBCds(html, name) ==
  IF name \in DOMAIN Doc(html).bp THEN Doc(html).bp[name] ELSE NULL

NoPage == [html |-> "", src |-> ""]

\* page && page.html
hasHtml(page) == page.html \in DocIds /\ ~Doc(page.html).empty

\* the page loadCds holds after the fetches that settled with got
page_000(got) ==
  LET first == IF IsDoc(got[1])
               THEN [html |-> got[1], src |-> "investing"] ELSE NoPage
  IN IF Len(got) = 2 /\ IsDoc(got[2])
     THEN [html |-> got[2], src |-> "wgb"] ELSE first

\* the spread loadCds extracts from the page, null when there is none
cds_000(page, country) ==
  IF hasHtml(page)
  THEN LET name == countryName(country)
           cds == IF page.src = "investing"
                  THEN parseInvestingCds(page.html, name) ELSE NULL
       IN IF cds = NULL THEN parseWGBCds(page.html, name) ELSE cds
  ELSE NULL

\* `${type}:${country}:${h}`
cacheKey_000(type, country, h) == <<type, country, h>>

handler_000(type, country, h) ==
  /\ UNCHANGED <<reqs, call, ft, flights, ui>>
  /\ rev = "part_000"
  /\ req.pc = "idle"
  /\ UNCHANGED <<rev, now, upstream>>
  /\ LET cacheKey == cacheKey_000(type, country, h)
         entry == EntryAt(cacheKey, now)
     IN IF ~(type \in allowedTypes /\ country \in allowedCountries
             /\ h \in allowedH)
        THEN /\ Respond(type, country, h, now, <<>>, entry,
                        resp_000(400, [error |-> "Invalid parameters"], FALSE),
                        "invalid", NULL)
             /\ UNCHANGED <<CACHE, origin>>
        ELSE IF cacheHit(CACHE, cacheKey, now)
        THEN /\ Respond(type, country, h, now, <<>>, entry,
                        resp_000(200, CACHE[cacheKey].data, TRUE), "hit", NULL)
             /\ UNCHANGED <<CACHE, origin>>
        ELSE IF type = "yield"
        THEN LET data == loadYield_000(country, h, now)
             IN /\ CACHE' = cacheSet(CACHE, cacheKey, [ts |-> now, data |-> data])
                /\ origin' = cacheSet(origin, cacheKey, data)
                /\ Respond(type, country, h, now, <<>>, entry,
                           resp_000(200, data, FALSE), "demo", NULL)
        ELSE Await(type, country, h, now, <<>>, entry, "investing")

\* loadCds resumes when a fetch settles; the handler stores and answers
loadCds_000(o) ==
  /\ UNCHANGED <<reqs, call, ft, flights, ui>>
  /\ rev = "part_000"
  /\ Settles(o)
  /\ UNCHANGED <<rev, now>>
  /\ LET got == Append(req.got, Serving(o))
         page == page_000(got)
         cds == cds_000(page, req.country)
         data == [asOf |-> isoToday(now),
                  cds5y_bps |-> IF cds # NULL THEN cds
                                ELSE demoCds(req.country, req.h)]
         cacheKey == cacheKey_000(req.type, req.country, req.h)
     IN IF Len(got) = 1 /\ ~hasHtml(page)
        THEN Await(req.type, req.country, req.h, req.t0, got, req.entry,
                   "wgb_cds")
        ELSE /\ CACHE' = cacheSet(CACHE, cacheKey,
                                  [ts |-> req.t0, data |-> data])
             /\ origin' = cacheSet(origin, cacheKey, data)
             /\ Respond(req.type, req.country, req.h, req.t0, got, req.entry,
                        resp_000(200, data, FALSE),
                        IF cds # NULL THEN "live" ELSE "demo", NULL)

(***************************************************************************)
(* part_001: country and type validated, cache inside the loaders (live    *)
(* results only), one WGB country page for yields and CDS.                 *)
(***************************************************************************)
resp_001(code, data) == [statusCode |-> code, body |-> data]

COUNTRY_MAP == {"US", "DE", "GB", "JP", "CA"}

\* have.length >= 5
enough_001(have) == Cardinality(have) >= 5

\* the extraction of parseWgbYield: the rows of strategy A, and the pairs
\* of strategy B over them when A found fewer than 3 labels
map_001(html) ==
  LET table == Doc(html).table
      js == Doc(html).js
  IN IF Cardinality(DOMAIN table) < 3
     THEN [t \in DOMAIN table \cup DOMAIN js |->
             IF t \in DOMAIN js THEN js[t] ELSE table[t]]
     ELSE table

\* the tenors of TENORS the extraction holds (have), and parseWgbYield's
\* result: the map over have, or null
parseWgbYield(html) ==
  LET map == map_001(html)
      have == {t \in TenorSet : t \in DOMAIN map}
  IN IF enough_001(have)
     THEN [isNull |-> FALSE, out |-> [t \in have |-> map[t]], have |-> have]
     ELSE [isNull |-> TRUE, out |-> NoPts, have |-> have]

parseWgbCds(html) ==
  LET a == Doc(html).cds5a
      b == Doc(html).cds5b
  IN IF a # NULL /\ a # NAN THEN a
     ELSE IF b # NULL /\ b # NAN THEN b
     ELSE NULL

\* `y:${country}:${h}` of loadYield, `cds:${country}:${h}` of loadCds
cacheKey_001(type, country, h) ==
  <<IF type = "yield" THEN "y" ELSE "cds", country, h>>

\* (a hit answered with the demo curve)
hitYield_001_demo(cached, t) ==
  [asOf |-> isoToday(t), tenors |-> DEMO_CURVE, src |-> "live-cache"]

\* what loadYield returns on a cache hit
hitYield_001(cached, t) ==
  [asOf |-> isoToday(t), tenors |-> cached.data, src |-> "live-cache"]

\* what loadCds returns on a cache hit
hitCds_001(cached, t) ==
  [asOf |-> isoToday(t), cds5y_bps |-> cached.data, src |-> "live-cache"]

\* { ...out, country, h }
withParams(out, country, h) ==
  [f \in DOMAIN out \cup {"country", "h"} |->
     IF f = "country" THEN country ELSE IF f = "h" THEN h ELSE out[f]]

handler_001(type, country, h) ==
  /\ UNCHANGED <<reqs, call, ft, flights, ui>>
  /\ rev = "part_001"
  /\ req.pc = "idle"
  /\ UNCHANGED <<rev, now, upstream>>
  /\ LET cacheKey == cacheKey_001(type, country, h)
         entry == EntryAt(cacheKey, now)
     IN IF country \notin COUNTRY_MAP
        THEN /\ Respond(type, country, h, now, <<>>, "none",
                        resp_001(400, [error |-> "Unsupported country",
                                       country |-> country]),
                        "invalid", NULL)
             /\ UNCHANGED <<CACHE, origin>>
        ELSE IF type # "yield" /\ type # "cds"
        THEN /\ Respond(type, country, h, now, <<>>, "none",
                        resp_001(400, [error |-> "Unsupported type",
                                       type |-> type]),
                        "invalid", NULL)
             /\ UNCHANGED <<CACHE, origin>>
        ELSE IF cacheHit(CACHE, cacheKey, now)
        THEN /\ Respond(type, country, h, now, <<>>, entry,
                        resp_001(200, withParams(
                          IF type = "yield"
                          THEN hitYield_001(CACHE[cacheKey], now)
                          ELSE hitCds_001(CACHE[cacheKey], now), country, h)),
                        "hit", NULL)
             /\ UNCHANGED <<CACHE, origin>>
        ELSE Await(type, country, h, now, <<>>, entry, "wgb_country")

\* loadYield resumes when fetchText settles (one attempt)
loadYield_001(o) ==
  /\ UNCHANGED <<reqs, call, ft, flights, ui>>
  /\ rev = "part_001"
  /\ req.type = "yield"
  /\ Settles(o)
  /\ UNCHANGED <<rev, now>>
  /\ LET got == Append(req.got, Serving(o))
         cacheKey == cacheKey_001(req.type, req.country, req.h)
         tenors == IF IsDoc(o) THEN parseWgbYield(o)
                   ELSE [isNull |-> TRUE, out |-> NoPts, have |-> {}]
         live == [asOf |-> isoToday(now), tenors |-> tenors.out,
                  src |-> "live", country |-> req.country, h |-> req.h]
         demo == [asOf |-> isoToday(now), tenors |-> DEMO_CURVE,
                  src |-> "demo", country |-> req.country, h |-> req.h]
         found == IF IsDoc(o) THEN Cardinality(tenors.have) ELSE NULL
     IN IF ~tenors.isNull
        THEN /\ CACHE' = cacheSet(CACHE, cacheKey,
                                  [ts |-> req.t0, data |-> tenors.out])
             /\ origin' = cacheSet(origin, cacheKey, live)
             /\ Respond(req.type, req.country, req.h, req.t0, got, req.entry,
                        resp_001(200, live), "live", found)
        ELSE /\ UNCHANGED <<CACHE, origin>>
             /\ Respond(req.type, req.country, req.h, req.t0, got, req.entry,
                        resp_001(200, demo), "demo", found)

loadCds_001(o) ==
  /\ UNCHANGED <<reqs, call, ft, flights, ui>>
  /\ rev = "part_001"
  /\ req.type = "cds"
  /\ Settles(o)
  /\ UNCHANGED <<rev, now>>
  /\ LET got == Append(req.got, Serving(o))
         cacheKey == cacheKey_001(req.type, req.country, req.h)
         cds == IF IsDoc(o) THEN parseWgbCds(o) ELSE NULL
         live == [asOf |-> isoToday(now), cds5y_bps |-> cds,
                  src |-> "live", country |-> req.country, h |-> req.h]
         demo == [asOf |-> isoToday(now), cds5y_bps |-> DEMO_CDS_5Y,
                  src |-> "demo", country |-> req.country, h |-> req.h]
     IN IF cds # NULL
        THEN /\ CACHE' = cacheSet(CACHE, cacheKey,
                                  [ts |-> req.t0, data |-> cds])
             /\ origin' = cacheSet(origin, cacheKey, live)
             /\ Respond(req.type, req.country, req.h, req.t0, got, req.entry,
                        resp_001(200, live), "live", NULL)
        ELSE /\ UNCHANGED <<CACHE, origin>>
             /\ Respond(req.type, req.country, req.h, req.t0, got, req.entry,
                        resp_001(200, demo), "demo", NULL)

(***************************************************************************)
(* part_002 and market.js: no cache; the WGB country page for yields, the  *)
(* WGB CDS history page for CDS.  part_002 throws on an unsupported        *)
(* country inside the try block, market.js answers 400.                    *)
(***************************************************************************)
COUNTRY_SLUG == {"US", "DE", "GB", "JP", "CA"}

json(statusCode, obj) == [statusCode |-> statusCode, body |-> obj]

json200(obj) == json(200, obj)

okJson(obj, statusCode) == [statusCode |-> statusCode, body |-> obj]

\* (three tenors found to be enough)
enough_002_three(tenors) == Cardinality(DOMAIN tenors) >= 3

\* count >= 4 of parseYieldsRobust
enough_002(tenors) == Cardinality(DOMAIN tenors) >= 4

\* Object.keys(tenors).length >= 4 of parseWGBYields
enough_market(tenors) == Cardinality(DOMAIN tenors) >= 4

\* per tenor code: the rate near an alias, else the structural fallback
parseYieldsRobust(html) ==
  LET near == Doc(html).label
      struct == Doc(html).struct
      tenors == [code \in {c \in TenorSet : c \in DOMAIN near \cup DOMAIN struct}
                   |-> IF code \in DOMAIN near THEN near[code]
                       ELSE struct[code]]
  IN [ok |-> enough_002(tenors), tenors |-> tenors]

\* per tenor code: the rate found by its label (cheerio or the regex window)
parseWGBYields(html) ==
  LET byLabel == Doc(html).label
      tenors == [code \in {c \in TenorSet : c \in DOMAIN byLabel}
                   |-> byLabel[code]]
  IN [ok |-> enough_market(tenors), tenors |-> tenors]

parseCds5y(html) ==
  IF Doc(html).bp5y = NULL THEN [ok |-> FALSE, bps |-> NULL]
  ELSE [ok |-> TRUE, bps |-> Doc(html).bp5y]

parseWGBcds5y(html) ==
  IF Doc(html).bp5y = NULL THEN [ok |-> FALSE, bps |-> NULL]
  ELSE [ok |-> TRUE, bps |-> Doc(html).bp5y]

\* the record the catch block and the failed parses answer with
demo_002(type, country, t) ==
  IF type = "cds"
  THEN [asOf |-> isoToday(t), country |-> country,
        cds5y_bps |-> DEMO_CDS_100, src |-> "demo"]
  ELSE [asOf |-> isoToday(t), country |-> country, tenors |-> DEMO_CURVE,
        src |-> "demo"]

handler_002(type, country, h) ==
  /\ UNCHANGED <<reqs, call, ft, flights, ui>>
  /\ rev = "part_002"
  /\ req.pc = "idle"
  /\ UNCHANGED <<rev, now, upstream, CACHE, origin>>
  /\ IF country \notin COUNTRY_SLUG
     THEN Respond(type, country, h, now, <<>>, "none",
                  json200(demo_002(type, country, now)), "demo", NULL)
     ELSE IF type = "yield"
     THEN Await(type, country, h, now, <<>>, "none", "wgb_country")
     ELSE IF type = "cds"
     THEN Await(type, country, h, now, <<>>, "none", "wgb_cdshist")
     ELSE Respond(type, country, h, now, <<>>, "none",
                  json(400, [error |-> "Unsupported type", type |-> type]),
                  "invalid", NULL)

\* the handler resumes when fetchHtml settles
resume_002(o) ==
  /\ UNCHANGED <<reqs, call, ft, flights, ui>>
  /\ rev = "part_002"
  /\ Settles(o)
  /\ UNCHANGED <<rev, now, CACHE, origin>>
  /\ LET got == Append(req.got, Serving(o))
         demo == demo_002(req.type, req.country, now)
     IN IF ~IsDoc(o)
        THEN Respond(req.type, req.country, req.h, req.t0, got, "none",
                     json200(demo), "demo", NULL)
        ELSE IF req.type = "yield"
        THEN LET parsed == parseYieldsRobust(o)
                 found == Cardinality(DOMAIN parsed.tenors)
             IN IF ~parsed.ok
                THEN Respond(req.type, req.country, req.h, req.t0, got, "none",
                             json200(demo), "demo", found)
                ELSE Respond(req.type, req.country, req.h, req.t0, got, "none",
                             json200([asOf |-> isoToday(now),
                                      country |-> req.country,
                                      tenors |-> parsed.tenors,
                                      src |-> "live"]), "live", found)
        ELSE LET parsed == parseCds5y(o)
             IN IF ~parsed.ok
                THEN Respond(req.type, req.country, req.h, req.t0, got, "none",
                             json200(demo), "demo", NULL)
                ELSE Respond(req.type, req.country, req.h, req.t0, got, "none",
                             json200([asOf |-> isoToday(now),
                                      country |-> req.country,
                                      cds5y_bps |-> parsed.bps,
                                      src |-> "live"]), "live", NULL)

handler_market(type, country, h) ==
  /\ UNCHANGED <<reqs, call, ft, flights, ui>>
  /\ rev = "market"
  /\ req.pc = "idle"
  /\ UNCHANGED <<rev, now, upstream, CACHE, origin>>
  /\ IF country \notin COUNTRY_SLUG
     THEN Respond(type, country, h, now, <<>>, "none",
                  okJson([error |-> "Unsupported country",
                          country |-> country], 400), "invalid", NULL)
     ELSE IF type = "yield"
     THEN Await(type, country, h, now, <<>>, "none", "wgb_country")
     ELSE IF type = "cds"
     THEN Await(type, country, h, now, <<>>, "none", "wgb_cdshist")
     ELSE Respond(type, country, h, now, <<>>, "none",
                  okJson([error |-> "Unsupported type", type |-> type], 400),
                  "invalid", NULL)

\* the handler resumes when getHtml settles
resume_market(o) ==
  /\ UNCHANGED <<reqs, call, ft, flights, ui>>
  /\ rev = "market"
  /\ Settles(o)
  /\ UNCHANGED <<rev, now, CACHE, origin>>
  /\ LET got == Append(req.got, Serving(o))
         demo == demo_002(req.type, req.country, now)
     IN IF ~IsDoc(o)
        THEN Respond(req.type, req.country, req.h, req.t0, got, "none",
                     okJson(demo, 200), "demo", NULL)
        ELSE IF req.type = "yield"
        THEN LET parsed == parseWGBYields(o)
                 found == Cardinality(DOMAIN parsed.tenors)
             IN IF ~parsed.ok
                THEN Respond(req.type, req.country, req.h, req.t0, got, "none",
                             okJson(demo, 200), "demo", found)
                ELSE Respond(req.type, req.country, req.h, req.t0, got, "none",
                             okJson([asOf |-> isoToday(now),
                                     country |-> req.country,
                                     tenors |-> parsed.tenors,
                                     src |-> "live"], 200), "live", found)
        ELSE LET parsed == parseWGBcds5y(o)
             IN IF ~parsed.ok
                THEN Respond(req.type, req.country, req.h, req.t0, got, "none",
                             okJson(demo, 200), "demo", NULL)
                ELSE Respond(req.type, req.country, req.h, req.t0, got, "none",
                             okJson([asOf |-> isoToday(now),
                                     country |-> req.country,
                                     cds5y_bps |-> parsed.bps,
                                     src |-> "live"], 200), "live", NULL)

Next ==
  \/ Tick
  \/ \E s \in Sources : UpstreamChange(s)
  \/ \E q \in reqs : handler_000(q[1], q[2], q[3])
  \/ \E o \in Outcomes : loadCds_000(o)
  \/ \E q \in reqs : handler_001(q[1], q[2], q[3])
  \/ \E o \in Outcomes : loadYield_001(o)
  \/ \E o \in Outcomes : loadCds_001(o)
  \/ \E q \in reqs : handler_002(q[1], q[2], q[3])
  \/ \E o \in Outcomes : resume_002(o)
  \/ \E q \in reqs : handler_market(q[1], q[2], q[3])
  \/ \E o \in Outcomes : resume_market(o)

Spec == Init /\ [][Next]_vars

(***************************************************************************)
(* The same handlers under requests for supported types and countries,     *)
(* one of them with a horizon outside today, 1w, 1m.                       *)
(***************************************************************************)
HorizonRequests ==
  {<<"yield", "US", "today">>, <<"yield", "US", "zz">>, <<"cds", "US", "1w">>}

InitHorizons ==
  /\ rev \in Revs
  /\ Idling
  /\ reqs = HorizonRequests
  /\ call = NoCall
  /\ ft = NoFetch
  /\ flights = NoFlights
  /\ ui = NoUi

SpecHorizons == InitHorizons /\ [][Next]_vars

(***************************************************************************)
(* part_003: the horizon resolvers pickRowByH and pickBOEByH and the       *)
(* providers that use them, as calls on series drawn from a bounded set.   *)
(* A series is what parseBBKCSV / parseBOE_TT return: rows {date, value}   *)
(* in the order of the file.  A date is the number of its day              *)
(* (new Date(iso) / 86400000), a value is in hundredths of a percent.      *)
(***************************************************************************)
\* a series has at most MaxRows rows
MaxRows == 4

\* the days a series can have a row for; 40 is the most recent one
DaySet == {0, 10, 20, 33, 34, 35, 40}

valueAt(d) ==
  CASE d = 0 -> 100 [] d = 20 -> 110 [] d = 35 -> 120 [] d = 40 -> 130
    [] OTHER -> 200 + d

RECURSIVE SeriesOf(_)
\* the rows for the days of S, oldest first
SeriesOf(S) ==
  IF S = {} THEN <<>>
  ELSE LET m == CHOOSE x \in S : \A y \in S : y <= x
       IN Append(SeriesOf(S \ {m}), [date |-> m, value |-> valueAt(m)])

SeriesSet == {SeriesOf(S) : S \in {T \in SUBSET DaySet : Cardinality(T) <= MaxRows}}

\* the longest feed of daily observations
MaxFeed == 24

\* how the days of a feed follow each other: every calendar day, the five
\* working days of each week, or one day a week
FeedSteps == {"calendar", "working", "weekly"}

dayOf(i, step) ==
  CASE step = "calendar" -> i
    [] step = "working" -> i + 2 * ((i - 1) \div 5)
    [] OTHER -> 7 * i

\* the n rows of a feed, oldest first
Feed(n, step) ==
  [i \in 1..n |-> [date |-> dayOf(i, step), value |-> valueAt(dayOf(i, step))]]

FeedSet == {Feed(n, step) : n \in 0..MaxFeed, step \in FeedSteps}

\* what a resolver returns: a row, null, or undefined
Ret(row) == [kind |-> "row", date |-> row.date, value |-> row.value]

JsNull == [kind |-> "null", date |-> NULL, value |-> NULL]

JsUndefined == [kind |-> "undefined", date |-> NULL, value |-> NULL]

\* (a week, whatever the horizon)
wantDays_always7(h) == 7

\* const want = h==='1w' ? 7 : 30
wantDays(h) == IF h = "1w" THEN 7 ELSE 30

\* (the oldest row that is old enough, else the last)
walkBack_oldest(rows, i, want) ==
  LET n == Len(rows)
      Q == {j \in 1..n : rows[n].date - rows[j].date >= want}
  IN IF Q = {} THEN Ret(rows[n])
     ELSE Ret(rows[CHOOSE j \in Q : \A k \in Q : j <= k])

RECURSIVE walkBack(_, _, _)
\* for(let i=rows.length-1;i>=0;i--) if(diff >= want) return rows[i];
\* return last;   (i counts from 1 here)
walkBack(rows, i, want) ==
  IF i = 0 THEN Ret(rows[Len(rows)])
  ELSE IF rows[Len(rows)].date - rows[i].date >= want THEN Ret(rows[i])
  ELSE walkBack(rows, i - 1, want)

pickRowByH(rows, h) ==
  IF Len(rows) = 0 THEN JsNull
  ELSE IF h = "today" THEN Ret(rows[Len(rows)])
  ELSE walkBack(rows, Len(rows), wantDays(h))

\* (no fallback to the last row)
pickBOEByH_noFallback(values, h) ==
  IF Len(values) = 0 THEN JsUndefined
  ELSE IF h = "today" THEN Ret(values[Len(values)])
  ELSE LET r == walkBack(values, Len(values), wantDays(h))
       IN IF r = Ret(values[Len(values)]) THEN JsUndefined ELSE r

\* values[values.length-1] of an empty array is undefined, and the loop
\* does not run
pickBOEByH(values, h) ==
  IF Len(values) = 0 THEN JsUndefined
  ELSE IF h = "today" THEN Ret(values[Len(values)])
  ELSE walkBack(values, Len(values), wantDays(h))

RECURSIVE valueFrom(_, _, _)
\* valueOnOrBefore: the value of the latest row dated dateISO or earlier
valueFrom(values, i, dateISO) ==
  IF i = 0 THEN NULL
  ELSE IF values[i].date <= dateISO THEN values[i].value
  ELSE valueFrom(values, i - 1, dateISO)

valueOnOrBefore(values, dateISO) == valueFrom(values, Len(values), dateISO)

\* the tenors of BBK_SERIES, one series each
BBK_SERIES == {"2Y", "5Y", "7Y", "10Y", "15Y", "30Y"}

\* the mapping the providers start from: every tenor null
ten == [t \in TenorCodes |-> NULL]

\* demoYield(country, h), whose body is not in the file: the call only
demoYield(country, h) == [kind |-> "demoYield", country |-> country]

\* provider_de_yield when the series of each tenor of BBK_SERIES arrives
\* with the rows series[tenor], or when a fetch fails (ok = FALSE): one
\* pick per series, asOf the latest date among the picks
provider_de_yield(series, h, ok, t) ==
  IF ~ok THEN demoYield("DE", h)
  ELSE LET pick == [k \in BBK_SERIES |-> pickRowByH(series[k], h)]
           dates == {pick[k].date : k \in {j \in BBK_SERIES : pick[j].kind = "row"}}
           asOf == IF dates # {}
                   THEN [fmt |-> "YYYY-MM-DD",
                         day |-> CHOOSE d \in dates : \A e \in dates : e <= d]
                   ELSE isoToday(t)
       IN [kind |-> "yield", asOf |-> asOf,
           tenors |-> [k \in TenorCodes \cup BBK_SERIES |->
                         IF k \in BBK_SERIES
                         THEN IF pick[k].kind = "row" THEN pick[k].value ELSE NULL
                         ELSE ten[k]]]

\* provider_gb_yield when the 10Y gilt series is the only one matched and
\* arrives with values, or when the fetch fails (ok = FALSE); ref.date of
\* an undefined ref throws, and the catch answers
provider_gb_yield(values, h, ok) ==
  IF ~ok THEN demoYield("GB", h)
  ELSE LET ref == pickBOEByH(values, h)
       IN IF ref.kind # "row" THEN demoYield("GB", h)
          ELSE [kind |-> "yield",
                asOf |-> [fmt |-> "YYYY-MM-DD", day |-> ref.date],
                tenors |-> [k \in TenorCodes |->
                              IF k = "10Y"
                              THEN valueOnOrBefore(values, ref.date)
                              ELSE ten[k]]]

\* the tenors the MoF and BoC feeds have a column for
FeedTenors == TenorCodes \ {"1M", "3M", "6M"}

\* a date as the feed writes it (last['Date'], ref.d)
feedDate(d) == [fmt |-> "feed", day |-> d]

\* rows[rows.length-1], rows[rows.length-6], rows[rows.length-23]
\* (rows are counted from 1 here)
refIndex(n, h) ==
  IF h = "1w" /\ n > 5 THEN n - 5
  ELSE IF h = "1m" /\ n > 22 THEN n - 22
  ELSE n

\* the try block of provider_jp_yield on the rows parseCSV returned:
\* last['Date'] of an undefined last is a TypeError
try_jp_yield(rows, h, ok) ==
  IF ~ok THEN [raised |-> "Error", out |-> JsUndefined]
  ELSE IF Len(rows) = 0 THEN [raised |-> "TypeError", out |-> JsUndefined]
  ELSE LET last == rows[Len(rows)]
           ref == rows[refIndex(Len(rows), h)]
       IN [raised |-> "none",
           out |-> [kind |-> "yield", asOf |-> feedDate(last.date),
                    tenors |-> [k \in TenorCodes |->
                                  IF k \in FeedTenors THEN ref.value
                                  ELSE NULL]]]

provider_jp_yield(rows, h, ok) ==
  LET r == try_jp_yield(rows, h, ok)
  IN IF r.raised # "none" THEN demoYield("JP", h) ELSE r.out

\* what the body of the BoC answer can be: JSON with observations, JSON
\* without them, or text that is not JSON
JsonShapes == {"observations", "other", "malformed"}

\* the try block of provider_ca_yield: res.json() of text that is not
\* JSON is a SyntaxError, obs.length of an undefined obs and o[...] of an
\* undefined o are TypeErrors
try_ca_yield(obs, h, ok, shape) ==
  IF ~ok THEN [raised |-> "Error", out |-> JsUndefined]
  ELSE IF shape = "malformed" THEN [raised |-> "SyntaxError", out |-> JsUndefined]
  ELSE IF shape = "other" \/ Len(obs) = 0
    THEN [raised |-> "TypeError", out |-> JsUndefined]
  ELSE LET ref == obs[refIndex(Len(obs), h)]
       IN [raised |-> "none",
           out |-> [kind |-> "yield", asOf |-> feedDate(ref.date),
                    tenors |-> [k \in TenorCodes |->
                                  IF k \in FeedTenors THEN ref.value
                                  ELSE NULL]]]

provider_ca_yield(obs, h, ok, shape) ==
  LET r == try_ca_yield(obs, h, ok, shape)
  IN IF r.raised # "none" THEN demoYield("CA", h) ELSE r.out

\* the first cell of a row of the BoE file: its parts between blanks or
\* slashes, and whether Date can read it
BoeCells == [parts : {1, 3}, readable : BOOLEAN]

\* dateFromBoE: toISOString() of an invalid Date is a RangeError
dateFromBoE(s) ==
  IF s.parts >= 3
  THEN IF s.readable THEN [raised |-> "none", out |-> "YYYY-MM-DD"]
       ELSE [raised |-> "RangeError", out |-> JsUndefined]
  ELSE [raised |-> "none", out |-> IF s.readable THEN "YYYY-MM-DD" ELSE s]

Called(fn, out) == call' = [call EXCEPT !.fn = fn, !.out = out]

\* a call that keeps what was raised inside it
Raising(fn, r, out) ==
  call' = [call EXCEPT !.fn = fn, !.out = out, !.raised = r.raised]

Waiting ==
  /\ call.fn = "input"
  /\ UNCHANGED <<rev, now, upstream, CACHE, origin, req, resp, trace,
                 changed, reqs, ft, flights, ui>>

call_pickRowByH ==
  /\ Waiting
  /\ Called("pickRowByH", pickRowByH(call.rows, call.h))

call_pickBOEByH ==
  /\ Waiting
  /\ Called("pickBOEByH", pickBOEByH(call.rows, call.h))

\* every series arrives with the rows of the call, or (behind) the series
\* of 2Y has not yet the latest row the others have
call_provider_de_yield(ok, behind) ==
  /\ Waiting
  /\ LET series == [k \in BBK_SERIES |->
                     IF behind /\ k = "2Y" /\ Len(call.rows) > 0
                     THEN SubSeq(call.rows, 1, Len(call.rows) - 1)
                     ELSE call.rows]
     IN Called("provider_de_yield", provider_de_yield(series, call.h, ok, now))

call_provider_gb_yield(ok) ==
  /\ Waiting
  /\ Called("provider_gb_yield", provider_gb_yield(call.rows, call.h, ok))

call_provider_jp_yield(ok) ==
  /\ Waiting
  /\ Raising("provider_jp_yield", try_jp_yield(call.rows, call.h, ok),
             provider_jp_yield(call.rows, call.h, ok))

call_provider_ca_yield(ok, shape) ==
  /\ Waiting
  /\ Raising("provider_ca_yield", try_ca_yield(call.rows, call.h, ok, shape),
             provider_ca_yield(call.rows, call.h, ok, shape))

call_dateFromBoE(s) ==
  /\ Waiting
  /\ Raising("dateFromBoE", dateFromBoE(s), dateFromBoE(s).out)

InitResolver ==
  /\ rev = "part_003"
  /\ Idling
  /\ reqs = {}
  /\ ft = NoFetch
  /\ flights = NoFlights
  /\ ui = NoUi
  /\ call \in {[fn |-> "input", rows |-> r, h |-> h, out |-> JsUndefined,
                 raised |-> "none"] :
                 r \in SeriesSet \cup FeedSet, h \in allowedH}

NextResolver ==
  \/ call_pickRowByH
  \/ call_pickBOEByH
  \/ \E ok, behind \in BOOLEAN : call_provider_de_yield(ok, behind)
  \/ \E ok \in BOOLEAN : call_provider_gb_yield(ok)
  \/ \E ok \in BOOLEAN : call_provider_jp_yield(ok)
  \/ \E ok \in BOOLEAN, shape \in JsonShapes : call_provider_ca_yield(ok, shape)
  \/ \E s \in BoeCells : call_dateFromBoE(s)

SpecResolver == InitResolver /\ [][NextResolver]_vars

(***************************************************************************)
(* One fetch exchange, as each fetcher of the repository conducts it:      *)
(*   fetchText  part_001: a loop of attempts, each with an AbortController *)
(*              whose timer is cleared when the response arrives           *)
(*   getHtml    market.js (fetchHtml of part_002 is the same): one attempt *)
(*   fetch_000  the try blocks of loadCds of part_000: one attempt, every  *)
(*              error swallowed                                            *)
(* The upstream answers (a status, then a body), fails, or stalls: from    *)
(* then on it sends nothing more for this attempt.                         *)
(***************************************************************************)
\* opts.retries is at most MaxRetries
MaxRetries == 3

Fetchers == {"fetchText", "getHtml", "fetch_000"}

\* (one attempt more than asked for)
moreAttempts_inclusive(i, retries) ==
  i <= (IF retries = NULL THEN 1 ELSE retries)

\* i < (opts.retries ?? 1)
moreAttempts(i, retries) == i < (IF retries = NULL THEN 1 ELSE retries)

\* the attempt in progress ends in failure e
failed(e) ==
  CASE ft.fn = "fetchText" ->
         \* catch (e) { lastErr = e } and `continue`: the next round (its
         \* controller is a new one: the timer of this attempt is done with)
         ft' = [ft EXCEPT !.pc = "loop", !.i = ft.i + 1, !.timer = FALSE,
                          !.stalled = FALSE, !.lastErr = e,
                          !.log = Append(ft.log, e)]
    [] ft.fn = "getHtml" ->
         \* the error propagates to the caller
         ft' = [ft EXCEPT !.pc = "thrown", !.err = e, !.lastErr = e,
                          !.log = Append(ft.log, e)]
    [] ft.fn = "fetch_000" ->
         \* catch (e) { }: page stays null
         ft' = [ft EXCEPT !.pc = "returned", !.ret = "", !.lastErr = e,
                          !.log = Append(ft.log, e)]

Fetching ==
  UNCHANGED <<rev, now, upstream, CACHE, origin, req, resp, trace, changed,
              reqs, call, flights, ui>>

\* the loop test of fetchText: another attempt, or throw lastErr
ft_loop ==
  /\ Fetching
  /\ ft.fn = "fetchText" /\ ft.pc = "loop"
  /\ IF moreAttempts(ft.i, ft.retries)
     THEN ft' = [ft EXCEPT !.pc = "fetch", !.timer = TRUE]
     ELSE ft' = [ft EXCEPT !.pc = "thrown",
                           !.err = IF ft.lastErr = "none"
                                   THEN "fetch failed" ELSE ft.lastErr]

\* the response arrives: clearTimeout(t), then the test of res.ok
ft_response(ok) ==
  /\ Fetching
  /\ ft.fn \in Fetchers /\ ft.pc = "fetch" /\ ~ft.stalled
  /\ IF ok THEN ft' = [ft EXCEPT !.pc = "text", !.timer = FALSE]
     ELSE failed("http")

\* fetch() rejects
ft_reject ==
  /\ Fetching
  /\ ft.fn \in Fetchers /\ ft.pc = "fetch" /\ ~ft.stalled
  /\ failed("neterr")

\* the upstream stops sending, before the status line or within the body
ft_stall ==
  /\ Fetching
  /\ ft.fn \in Fetchers /\ ft.pc \in {"fetch", "text"} /\ ~ft.stalled
  /\ ft' = [ft EXCEPT !.stalled = TRUE]

\* setTimeout(() => controller.abort(), ...) fires: fetch rejects
ft_timeout ==
  /\ Fetching
  /\ ft.fn \in Fetchers /\ ft.pc = "fetch" /\ ft.timer
  /\ failed("abort")

\* res.text() resolves with the document
ft_body(doc) ==
  /\ Fetching
  /\ ft.fn \in Fetchers /\ ft.pc = "text" /\ ~ft.stalled
  /\ ft' = [ft EXCEPT !.pc = "returned", !.ret = doc,
                      !.log = Append(ft.log, "ok")]

\* res.text() rejects
ft_bodyError ==
  /\ Fetching
  /\ ft.fn \in Fetchers /\ ft.pc = "text" /\ ~ft.stalled
  /\ failed("bodyerr")

InitFetch ==
  /\ rev = "part_001"
  /\ Idling
  /\ reqs = {}
  /\ call = NoCall
  /\ flights = NoFlights
  /\ ui = NoUi
  /\ \E fn \in Fetchers :
       \E n \in (IF fn = "fetchText" THEN {NULL} \cup (0..MaxRetries)
                 ELSE {NULL}) :
         ft = [fn |-> fn, retries |-> n,
               pc |-> IF fn = "fetchText" THEN "loop" ELSE "fetch",
               i |-> 0, timer |-> FALSE, stalled |-> FALSE,
               lastErr |-> "none", log |-> <<>>, ret |-> "", err |-> "none"]

Progress ==
  \/ ft_loop
  \/ \E ok \in BOOLEAN : ft_response(ok)
  \/ ft_reject
  \/ ft_timeout
  \/ \E doc \in DocIds : ft_body(doc)
  \/ ft_bodyError

NextFetch ==
  \/ ft_loop
  \/ \E ok \in BOOLEAN : ft_response(ok)
  \/ ft_reject
  \/ ft_stall
  \/ ft_timeout
  \/ \E doc \in DocIds : ft_body(doc)
  \/ ft_bodyError

SpecFetch == InitFetch /\ [][NextFetch]_vars

\* the event loop runs every continuation that is ready; only the upstream
\* is free never to act
FairSpecFetch == SpecFetch /\ WF_vars(Progress)

(***************************************************************************)
(* The yield extractors on a text.  A text is a sequence of items, each    *)
(* the mention of one tenor with one rate in one of five forms:            *)
(*   json   "10Y": "4.55%"                                                 *)
(*   bare   "10Y": "4.55"                                                  *)
(*   row    <tr><td>10Y</td><td>4.55 %</td></tr>                           *)
(*   pair   ["10Y",4.55]                                                   *)
(*   prose  10 Years 4.55%                                                 *)
(* The texts are shorter than the windows of findNearAliases (320) and     *)
(* findNearestPercent (400), so a window holds the whole text; no item     *)
(* has a rate written with "p.a.".                                         *)
(***************************************************************************)
MaxItems == 3

Forms == {"json", "bare", "row", "pair", "prose"}

Shapes == [form : Forms, tenor : {"2Y", "10Y", "30Y"}]

\* the j-th item of a text carries the rate 4.54 + j/100 (in hundredths)
Rated(s) ==
  [j \in 1..Len(s) |-> [form |-> s[j].form, tenor |-> s[j].tenor, rate |-> 454 + j]]

\* the points of a curve embedded in a script: ["1M",..],["3M",..],...
PairBlock == [j \in 1..5 |-> [form |-> "pair", tenor |-> TENORS[j]]]

\* a text: up to MaxItems items, then the points of the curve or nothing
Text(s, curve) == Rated(IF curve THEN s \o PairBlock ELSE s)

\* the earliest item of the text among those of the set I, or 0
firstOf(I) == IF I = {} THEN 0 ELSE CHOOSE i \in I : \A k \in I : i <= k

\* /(-?\d+(?:[.,]\d+)?)\s*%/: the first number followed by a percent sign
firstPercent(str) ==
  LET i == firstOf({k \in DOMAIN str : str[k].form \in {"json", "row", "prose"}})
  IN IF i = 0 THEN NULL ELSE str[i].rate

\* every form writes the tenor in one of the aliases of its code ("10Y" or
\* "10 Years"); the snippet around the alias is searched for a percent
findNearAliases(html, code) ==
  IF \E k \in DOMAIN html : html[k].tenor = code THEN firstPercent(html)
  ELSE NULL

\* j1 of structuralFallbacks: ["']key["']\s*[:=]\s*["']?(number)%?["']?
jsonIsh(html, key) ==
  LET i == firstOf({k \in DOMAIN html :
                      html[k].tenor = key /\ html[k].form \in {"json", "bare"}})
  IN IF i = 0 THEN NULL ELSE html[i].rate

\* j2 of structuralFallbacks: key[^%\d]{0,80}(number)\s*%
tableLike(html, key) ==
  LET i == firstOf({k \in DOMAIN html :
                      html[k].tenor = key /\ html[k].form \in {"json", "row"}})
  IN IF i = 0 THEN NULL ELSE html[i].rate

structuralFallbacks(html, key) ==
  IF jsonIsh(html, key) # NULL THEN jsonIsh(html, key) ELSE tableLike(html, key)

\* the loop of parseYieldsRobust; a tenor without a key in `tenors` is NULL
tenors_002(html) ==
  [code \in TenorSet |->
     LET v == findNearAliases(html, code)
     IN IF v # NULL THEN v ELSE structuralFallbacks(html, code)]

\* findNearestPercent with the label of TENOR_LABEL ("10 Years"), which
\* only the prose form writes
findNearestPercent(html, code) ==
  IF \E k \in DOMAIN html : html[k].tenor = code /\ html[k].form = "prose"
  THEN firstPercent(html)
  ELSE NULL

\* the loop of parseWGBYields when cheerio is not installed
tenors_market(html) == [code \in TenorSet |-> findNearestPercent(html, code)]

\* what a global regex leaves in map: for each tenor the rate of the last
\* item of the form, NULL without such an item
lastOf(html, form) ==
  [t \in TenorSet |->
     LET I == {k \in DOMAIN html : html[k].tenor = t /\ html[k].form = form}
     IN IF I = {} THEN NULL ELSE html[CHOOSE i \in I : \A k \in I : k <= i].rate]

\* strategy A of parseWgbYield
tableRe(html) == lastOf(html, "row")

\* strategy B of parseWgbYield
jsPairs(html) == lastOf(html, "pair")

\* map after strategies A and B: B runs when A left fewer than 3 keys, and
\* writes over them
wgbMap(html) ==
  IF Cardinality({t \in TenorSet : tableRe(html)[t] # NULL}) < 3
  THEN [t \in TenorSet |->
          IF jsPairs(html)[t] # NULL THEN jsPairs(html)[t] ELSE tableRe(html)[t]]
  ELSE tableRe(html)

\* parseWgbYield on a text: null unless 5 tenors have a rate
tenors_001(html) ==
  IF enough_001({t \in TenorSet : wgbMap(html)[t] # NULL})
  THEN [isNull |-> FALSE, tenors |-> wgbMap(html)]
  ELSE [isNull |-> TRUE, tenors |-> [t \in TenorSet |-> NULL]]

call_parseYieldsRobust ==
  /\ Waiting
  /\ Called("parseYieldsRobust",
            [isNull |-> FALSE, tenors |-> tenors_002(call.text)])

call_parseWGBYields ==
  /\ Waiting
  /\ Called("parseWGBYields",
            [isNull |-> FALSE, tenors |-> tenors_market(call.text)])

call_parseWgbYield ==
  /\ Waiting
  /\ Called("parseWgbYield", tenors_001(call.text))

InitExtract ==
  /\ rev = "part_002"
  /\ Idling
  /\ reqs = {}
  /\ ft = NoFetch
  /\ flights = NoFlights
  /\ ui = NoUi
  /\ \E n \in 0..MaxItems : \E s \in [1..n -> Shapes], curve \in BOOLEAN :
       call = [fn |-> "input", text |-> Text(s, curve), out |-> JsUndefined]

NextExtract ==
  \/ call_parseYieldsRobust
  \/ call_parseWGBYields
  \/ call_parseWgbYield

SpecExtract == InitExtract /\ [][NextExtract]_vars

(***************************************************************************)
(* Two requests at the same time.  The handler of part_000 (that of        *)
(* part_003 is the same) and provider_cds5y of part_003 each run up to     *)
(* their next await in one step; the steps of two clients interleave, the  *)
(* clock and the sources move between them.  Each client sends one         *)
(* request.  fetchCdsUnified is not in the file of part_003, so a client   *)
(* of that revision calls provider_cds5y itself.                           *)
(***************************************************************************)
ConcurrentRequests == {<<"cds", "US", "1w">>, <<"cds", "US", "today">>}

\* const cacheKey = `cds_page_cache` (a key of one part)
PageKey == <<"cds_page_cache">>

\* the steps of client c leave the rest alone
Flying(c, f) ==
  /\ flights' = [flights EXCEPT ![c] = f]
  /\ UNCHANGED <<rev, now, origin, req, resp, trace, changed, reqs, call, ft, ui>>

Landed(f, page, got, r) ==
  [f EXCEPT !.pc = "done", !.page = page, !.got = got, !.resp = r]

handler_000_flight(c, q) ==
  /\ rev = "part_000"
  /\ flights[c].pc = "idle"
  /\ UNCHANGED upstream
  /\ LET type == q[1]
         country == q[2]
         h == q[3]
         cacheKey == cacheKey_000(type, country, h)
         f == [flights[c] EXCEPT !.q = q, !.t0 = now,
                                 !.entry = EntryAt(cacheKey, now)]
     IN IF ~(type \in allowedTypes /\ country \in allowedCountries
             /\ h \in allowedH)
        THEN /\ Flying(c, Landed(f, f.page, <<>>,
                    resp_000(400, [error |-> "Invalid parameters"], FALSE)))
             /\ UNCHANGED CACHE
        ELSE IF cacheHit(CACHE, cacheKey, now)
        THEN /\ Flying(c, Landed(f, f.page, <<>>,
                                 resp_000(200, CACHE[cacheKey].data, TRUE)))
             /\ UNCHANGED CACHE
        ELSE IF type = "yield"
        THEN LET data == loadYield_000(country, h, now)
             IN /\ CACHE' = cacheSet(CACHE, cacheKey, [ts |-> now, data |-> data])
                /\ Flying(c, Landed(f, f.page, <<>>, resp_000(200, data, FALSE)))
        ELSE /\ Flying(c, [f EXCEPT !.pc = "fetch", !.src = "investing"])
             /\ UNCHANGED CACHE

\* the fetch client c awaits settles with outcome o
SettlesFor(c, o) ==
  /\ flights[c].pc = "fetch"
  /\ o \in Outcomes
  /\ upstream[flights[c].src] \in {"unknown", Serving(o)}
  /\ upstream' = [upstream EXCEPT ![flights[c].src] = Serving(o)]

loadCds_000_flight(c, o) ==
  /\ rev = "part_000"
  /\ SettlesFor(c, o)
  /\ LET f == flights[c]
         got == Append(f.got, Serving(o))
         page == page_000(got)
         cds == cds_000(page, f.q[2])
         data == [asOf |-> isoToday(now),
                  cds5y_bps |-> IF cds # NULL THEN cds
                                ELSE demoCds(f.q[2], f.q[3])]
     IN IF Len(got) = 1 /\ ~hasHtml(page)
        THEN /\ Flying(c, [f EXCEPT !.src = "wgb_cds", !.got = got])
             /\ UNCHANGED CACHE
        ELSE /\ CACHE' = cacheSet(CACHE, cacheKey_000(f.q[1], f.q[2], f.q[3]),
                                  [ts |-> f.t0, data |-> data])
             /\ Flying(c, Landed(f, f.page, got, resp_000(200, data, FALSE)))

\* the end of provider_cds5y: the spread of the page it holds, else demo
cds5y_return(f, page, got) ==
  LET cds == cds_000(page, f.q[2])
  IN Landed(f, page, got,
            [asOf |-> isoToday(now),
             cds5y_bps |-> IF cds # NULL THEN cds ELSE demoCds(f.q[2], f.q[3])])

\* provider_cds5y up to its first await
provider_cds5y(c, q) ==
  /\ rev = "part_003"
  /\ flights[c].pc = "idle"
  /\ UNCHANGED <<upstream, CACHE>>
  /\ LET page == IF PageKey \in DOMAIN CACHE THEN CACHE[PageKey]
                 ELSE NoCachedPage
         f == [flights[c] EXCEPT !.q = q, !.t0 = now, !.page = page,
                 !.entry = IF ~page.held THEN "none"
                           ELSE IF now - page.ts > CACHE_TTL_MS THEN "stale"
                           ELSE "fresh"]
     IN IF ~page.held \/ now - page.ts > CACHE_TTL_MS
        THEN Flying(c, [f EXCEPT !.pc = "fetch", !.src = "investing"])
        ELSE IF ~hasHtml(page)
        THEN Flying(c, [f EXCEPT !.pc = "fetch", !.src = "wgb_cds"])
        ELSE Flying(c, cds5y_return(f, page, <<>>))

\* provider_cds5y resumes when a fetch settles: a page that arrived is kept
\* and stored, a failure leaves page as it was
provider_cds5y_resume(c, o) ==
  /\ rev = "part_003"
  /\ SettlesFor(c, o)
  /\ LET f == flights[c]
         got == Append(f.got, Serving(o))
         page == IF IsDoc(o)
                 THEN [held |-> TRUE, ts |-> f.t0, html |-> o,
                       src |-> IF f.src = "investing" THEN "investing" ELSE "wgb"]
                 ELSE f.page
     IN /\ CACHE' = IF IsDoc(o) THEN cacheSet(CACHE, PageKey, page) ELSE CACHE
        /\ IF f.src = "investing" /\ ~hasHtml(page)
           THEN Flying(c, [f EXCEPT !.src = "wgb_cds", !.got = got, !.page = page])
           ELSE Flying(c, cds5y_return(f, page, got))

\* before the behaviour starts the page cache of part_003 is empty, or
\* holds a page fetched one tick earlier
InitConcurrent ==
  /\ rev \in {"part_000", "part_003"}
  /\ now = StartMs
  /\ upstream = [s \in Sources |-> "unknown"]
  /\ CACHE \in {<<>>} \cup
       (IF rev = "part_003"
        THEN {PageKey :> [held |-> TRUE, ts |-> StartMs - TickMs,
                          html |-> "DocFour", src |-> "investing"]}
        ELSE {})
  /\ origin = <<>>
  /\ req = Idle
  /\ resp = NoResp
  /\ trace = NoTrace
  /\ changed = FALSE
  /\ reqs = ConcurrentRequests
  /\ call = NoCall
  /\ ft = NoFetch
  /\ flights = NoFlights
  /\ ui = NoUi

NextConcurrent ==
  \/ Tick
  \/ \E s \in Sources : UpstreamChange(s)
  \/ \E c \in Clients, q \in reqs : handler_000_flight(c, q)
  \/ \E c \in Clients, o \in Outcomes : loadCds_000_flight(c, o)
  \/ \E c \in Clients, q \in reqs : provider_cds5y(c, q)
  \/ \E c \in Clients, o \in Outcomes : provider_cds5y_resume(c, o)

SpecConcurrent == InitConcurrent /\ [][NextConcurrent]_vars

(***************************************************************************)
(* The frontend: loadAll of src/app.js (lines 72-122) and of the script    *)
(* appended to src/netlify/functions/market.js (lines 357-408), wired to   *)
(* the refresh button and to every control.  An invocation runs up to its  *)
(* await of the loads in one step and resumes when they have settled; the  *)
(* invocations are numbered in the order they were triggered, and the      *)
(* chart and the status remember the invocation that wrote them.           *)
(***************************************************************************)
MaxLoads == 3

\* what the controls show when loadAll reads them
Selections == [countries : {{}, {"US"}}, h : allowedH]

\* loadAll up to `await Promise.allSettled(tasks)`
loadAll(sel) ==
  /\ ui.seq < MaxLoads
  /\ LET id == ui.seq + 1
     IN IF sel.countries = {}
        THEN ui' = [ui EXCEPT
                      !.seq = id,
                      !.chart = [by |-> id, h |-> sel.h,
                                 kind |-> IF rev = "app.js" THEN "none"
                                          ELSE "empty"],
                      !.status = [by |-> id,
                                  text |-> "Select at least one country"]]
        ELSE ui' = [ui EXCEPT
                      !.seq = id,
                      !.waiting = @ \cup {[id |-> id, h |-> sel.h]},
                      !.status = [by |-> id, text |-> "Loading"]]
  /\ UNCHANGED <<rev, now, upstream, CACHE, origin, req, resp, trace, changed,
                 reqs, call, ft, flights>>

\* the loads of invocation w have settled, with a curve among them
\* (fulfilled) or without: the chart is destroyed and drawn, the status set
loadAll_resume(w, fulfilled) ==
  /\ w \in ui.waiting
  /\ ui' = [ui EXCEPT
              !.waiting = @ \ {w},
              !.chart = [by |-> w.id, h |-> w.h,
                         kind |-> IF fulfilled THEN "curves"
                                  ELSE IF rev = "app.js" THEN "none"
                                  ELSE "empty"],
              !.status = [by |-> w.id,
                          text |-> IF fulfilled THEN "As of"
                                   ELSE IF rev = "app.js" THEN "No data"
                                   ELSE "API error"]]
  /\ UNCHANGED <<rev, now, upstream, CACHE, origin, req, resp, trace, changed,
                 reqs, call, ft, flights>>

InitFrontend ==
  /\ rev \in {"app.js", "market"}
  /\ Idling
  /\ reqs = {}
  /\ call = NoCall
  /\ ft = NoFetch
  /\ flights = NoFlights
  /\ ui = NoUi

NextFrontend ==
  \/ \E sel \in Selections : loadAll(sel)
  \/ \E w \in ui.waiting, fulfilled \in BOOLEAN : loadAll_resume(w, fulfilled)

SpecFrontend == InitFrontend /\ [][NextFrontend]_vars

(***************************************************************************)
(* Vocabulary of the properties.  They speak of the last request that      *)
(* completed: its parameters and path (trace) and its response (resp).     *)
(***************************************************************************)
Done == trace.path # "none"

\* the request was for a supported (type, country, horizon) triple
Supported ==
  /\ trace.type \in {"yield", "cds"}
  /\ trace.country \in {"US", "DE", "GB", "JP", "CA"}
  /\ trace.h \in {"today", "1w", "1m"}

\* the revisions that keep a cache, and the key of the last request in it
Caching == rev \in {"part_000", "part_001"}

Key ==
  IF rev = "part_000" THEN cacheKey_000(trace.type, trace.country, trace.h)
  ELSE cacheKey_001(trace.type, trace.country, trace.h)

\* every fetch of the request failed or brought an empty document
AllFailed ==
  /\ trace.got # <<>>
  /\ \A i \in 1..Len(trace.got) : trace.got[i] \in {"down", "DocBlank"}

HasSrc(body) == "src" \in DOMAIN body

\* the tenor values, resp. the CDS value, of a payload
Vals(body) ==
  IF "tenors" \in DOMAIN body THEN body.tenors ELSE body.cds5y_bps

\* C1: a request for a supported triple is never answered with an error
\* because of the upstream: the status is 200 and, when every fetch failed,
\* the payload is tagged src = demo.
C1_NeverFailsOnUpstream ==
  (Done /\ Supported) =>
    /\ resp.statusCode = 200
    /\ AllFailed => (HasSrc(resp.body) /\ resp.body.src = "demo")

\* C2: the record returned for a supported triple has an asOf of the form
\* YYYY-MM-DD and a src that is one of live, cache, demo.
C2_AsOfAndSrcWellFormed ==
  (Done /\ Supported) =>
    /\ "asOf" \in DOMAIN resp.body
    /\ resp.body.asOf.fmt = "YYYY-MM-DD"
    /\ HasSrc(resp.body)
    /\ resp.body.src \in {"live", "cache", "demo"}

\* C3: the src tag is the path of this very call: cache exactly on a cache
\* hit, live exactly when a provider was trusted, demo exactly when the
\* demo fallback was substituted.
C3_SrcIsThePathTaken ==
  (Done /\ Supported) =>
    /\ HasSrc(resp.body)
    /\ (resp.body.src = "cache") <=> (trace.path = "hit")
    /\ (resp.body.src = "live") <=> (trace.path = "live")
    /\ (resp.body.src = "demo") <=> (trace.path = "demo")

\* the demo fallback record of the revision for (type, country)
DemoVals(type, country) ==
  IF type = "yield" THEN DEMO_CURVE
  ELSE CASE rev = "part_000" -> demoCds(country, "today")
         [] rev = "part_001" -> DEMO_CDS_5Y
         [] OTHER -> DEMO_CDS_100

\* C4: when every provider failed, the payload is the demo fallback record
\* of (type, country): the whole demo mapping, resp. the demo spread, with
\* src = demo.
C4_ExhaustedChainGivesDemo ==
  (Done /\ Supported /\ trace.got # <<>> /\ trace.path = "demo") =>
    /\ Vals(resp.body) = DemoVals(trace.type, trace.country)
    /\ HasSrc(resp.body)
    /\ resp.body.src = "demo"

\* C5: a cache hit returns the content stored last under the key (same
\* asOf, same values), src apart, which reads cache.
C5_HitReturnsStoredContent ==
  (Done /\ Supported /\ trace.path = "hit") =>
    /\ resp.body.asOf = origin[Key].asOf
    /\ Vals(resp.body) = Vals(origin[Key])
    /\ HasSrc(resp.body)
    /\ resp.body.src = "cache"

\* C6: while the entry of its key is younger than 15 minutes, a request
\* makes no fetch and runs no parser; a fetch is only ever awaited by a
\* request that found no fresh entry.
C6_FreshEntryMeansNoFetch ==
  /\ (Done /\ trace.entry = "fresh") =>
       (trace.got = <<>> /\ trace.found = NULL /\ trace.path = "hit")
  /\ (req.pc = "fetch") => req.entry # "fresh"

C6_Witness == Done /\ Supported /\ trace.entry = "fresh" /\ trace.path = "hit"

SameKeyAgain ==
  /\ trace' # trace \/ resp' # resp
  /\ Done /\ Supported
  /\ trace'.type = trace.type
  /\ trace'.country = trace.country
  /\ trace'.h = trace.h
  /\ trace'.t0 - trace.t0 < 15 * 60 * 1000
  /\ resp.statusCode = 200 /\ resp'.statusCode = 200
  /\ ~changed

\* C8 as claimed: two requests for the same triple within one freshness
\* window, the upstream unchanged between them, return identical values.
C8_Idempotent ==
  [][SameKeyAgain => Vals(resp'.body) = Vals(resp.body)]_vars

\* C8 as amended: they return identical values unless the first was served
\* from the cache and the second was resolved again (the cached values can
\* be older than the last change of the upstream).
C8_IdempotentButAfterHit ==
  [][(SameKeyAgain /\ ~(trace.path = "hit" /\ trace'.path # "hit"))
       => Vals(resp'.body) = Vals(resp.body)]_vars

\* the second of two such requests was resolved by the providers again,
\* from a document
C8_Witness ==
  /\ Done /\ Supported /\ trace.again
  /\ trace.path = "live" /\ trace.got # <<>>

\* C9: a request whose type or country is not supported is answered with
\* status 400 and without any fetch.
C9_BadInputIs400 ==
  (Done /\ (trace.type \notin {"yield", "cds"}
            \/ trace.country \notin {"US", "DE", "GB", "JP", "CA"})) =>
    /\ resp.statusCode = 400
    /\ trace.got = <<>>

\* C10 as claimed: an extraction of exactly 3 enumerated tenors is
\* rejected, one of 4 or more is returned as live, by every yield parser.
C10_ThreeRejectedFourAccepted ==
  (Done /\ trace.found # NULL) =>
    /\ trace.found = 3 => resp.body.src # "live"
    /\ trace.found >= 4 => resp.body.src = "live"

\* C10 as amended: an extraction of exactly 3 enumerated tenors is rejected
\* by every yield parser (the answer is the demo curve); one of 4 or more
\* is returned as live by parseYieldsRobust and parseWGBYields; parseWgbYield
\* returns one of 5 or more as live and rejects one of 4.
C10_TrustThresholds ==
  (Done /\ trace.found # NULL) =>
    /\ trace.found <= 3 =>
         (resp.body.src = "demo" /\ resp.body.tenors = DEMO_CURVE)
    /\ (trace.found >= 4 /\ rev # "part_001") => resp.body.src = "live"
    /\ (trace.found = 4 /\ rev = "part_001") => resp.body.src = "demo"
    /\ (trace.found >= 5 /\ rev = "part_001") => resp.body.src = "live"

\* parseWgbYield extracted 4 tenors and the answer is the demo curve
C10_Witness ==
  /\ Done /\ rev = "part_001" /\ trace.found = 4
  /\ resp.body.src = "demo"

\* C11: in the CDS chain of part_000 (investing.com, then
\* worldgovernmentbonds.com) the second provider is fetched exactly when the
\* first failed (its fetch failed, or its own extractor found no 5Y value
\* in its document), and the live value is the one the first passing
\* provider's own extractor found in that provider's own document.
C11_CdsChainInOrder ==
  (Done /\ Supported /\ rev = "part_000" /\ trace.type = "cds"
        /\ trace.got # <<>>) =>
    LET name == countryName(trace.country)
        got == trace.got
        own1 == IF IsDoc(got[1]) THEN parseInvestingCds(got[1], name)
                ELSE NULL
        own2 == IF Len(got) = 2 /\ IsDoc(got[2])
                THEN parseWGBCds(got[2], name) ELSE NULL
    IN /\ (Len(got) = 2) <=> (own1 = NULL)
       /\ own1 # NULL =>
            (trace.path = "live" /\ resp.body.cds5y_bps = own1)
       /\ (own1 = NULL /\ own2 # NULL) =>
            (trace.path = "live" /\ resp.body.cds5y_bps = own2)
       /\ (own1 = NULL /\ own2 = NULL) => trace.path = "demo"

\* C16: the tenors mapping of every yield response has the full
\* enumeration as its key set, a tenor without value being present as
\* null.
C16_FullKeySet ==
  (Done /\ Supported /\ trace.type = "yield" /\ resp.statusCode = 200) =>
    DOMAIN resp.body.tenors = TenorCodes

\* C17: the demo fallback is a function of (type, country) alone: every
\* response that carries it has status 200 and the values of the revision's
\* demo record for (type, country), whatever the horizon, the cache and the
\* requests before it.
C17_DemoIsPure ==
  (Done /\ trace.path = "demo") =>
    /\ resp.statusCode = 200
    /\ Vals(resp.body) =
         IF rev = "part_000" /\ trace.type = "yield"
         THEN loadYield_000(trace.country, "today", StartMs).tenors
         ELSE DemoVals(trace.type, trace.country)

\* the demo record answered for a horizon other than today, after earlier
\* requests have filled the cache
C17_Witness ==
  /\ Done /\ trace.path = "demo" /\ trace.h # "today"
  /\ trace.got # <<>> /\ CACHE # <<>>

\* the keys of the supported triples
SupportedKeys ==
  {IF rev = "part_000" THEN cacheKey_000(t, c, h) ELSE cacheKey_001(t, c, h) :
     t \in allowedTypes, c \in allowedCountries, h \in allowedH}

\* C18: the cache holds at most 30 entries, each under the key of a
\* supported (type, country, horizon).
C18_KeysWithinTheThirty ==
  /\ DOMAIN CACHE \subseteq SupportedKeys
  /\ Cardinality(DOMAIN CACHE) <= Cardinality(SupportedKeys)
  /\ Cardinality(SupportedKeys) = 30

\* a resolver has been called on a series; the rows of the series that are
\* old enough for the horizon (7 days for 1w, 30 for 1m)
Resolved == call.fn \in {"pickRowByH", "pickBOEByH"}

Qualifying ==
  LET n == Len(call.rows)
  IN {j \in 1..n :
        call.rows[n].date - call.rows[j].date >= (IF call.h = "1w" THEN 7 ELSE 30)}

Latest(Q) == CHOOSE j \in Q : \A k \in Q : k <= j

Oldest(Q) == CHOOSE j \in Q : \A k \in Q : j <= k

\* C12: for a series with at least one element and horizon 1w (resp. 1m),
\* when some element is at least 7 (resp. 30) days older than the last, the
\* element returned is the one of them closest to the end of the series.
C12_ClosestQualifying ==
  (Resolved /\ call.h \in {"1w", "1m"} /\ Len(call.rows) >= 1
            /\ Qualifying # {}) =>
    call.out = Ret(call.rows[Latest(Qualifying)])

\* two rows are old enough, and the later of them was returned
C12_Witness ==
  /\ Resolved /\ call.h = "1m" /\ Cardinality(Qualifying) >= 2
  /\ call.out.kind = "row"
  /\ call.out.date = call.rows[Latest(Qualifying)].date

\* the element a resolver returns is the last of the series when the
\* horizon is today or no element is old enough
LastWhenNoneQualifies ==
  (call.h = "today" \/ Qualifying = {}) =>
    call.out = Ret(call.rows[Len(call.rows)])

\* C13 as claimed: for every series, the empty one included, the resolver
\* returns an element of the series: the last one for today and when no
\* element is old enough.
C13_AlwaysAnElement ==
  Resolved =>
    /\ call.out.kind = "row"
    /\ \E j \in 1..Len(call.rows) : call.out = Ret(call.rows[j])
    /\ LastWhenNoneQualifies

\* C13 as amended: for every series with at least one element the resolver
\* returns an element of the series, the last one for today and when no
\* element is old enough; for the empty series pickRowByH returns null and
\* pickBOEByH returns undefined, and provider_gb_yield, which reads the
\* date of that result, answers with demoYield.
C13_AnElementUnlessEmpty ==
  /\ (Resolved /\ Len(call.rows) >= 1) =>
       /\ call.out.kind = "row"
       /\ \E j \in 1..Len(call.rows) : call.out = Ret(call.rows[j])
       /\ LastWhenNoneQualifies
  /\ (Resolved /\ Len(call.rows) = 0) =>
       call.out = (IF call.fn = "pickRowByH" THEN JsNull ELSE JsUndefined)
  /\ (call.fn = "provider_gb_yield" /\ Len(call.rows) = 0) =>
       call.out.kind = "demoYield"

\* a series of one element, horizon 1m: the element is returned
C13_Witness ==
  /\ call.fn = "pickBOEByH" /\ Len(call.rows) = 1 /\ call.h = "1m"
  /\ call.out = Ret(call.rows[1])

\* the series [(d-40, 1.0), (d-20, 1.1), (d-5, 1.2), (d, 1.3)] with d = 40
ExampleSeries == SeriesOf({0, 20, 35, 40})

\* C14 as claimed: when some element is old enough for the horizon, the
\* resolver returns the oldest of them.
C14_OldestQualifying ==
  (Resolved /\ call.h \in {"1w", "1m"} /\ Len(call.rows) >= 1
            /\ Qualifying # {}) =>
    call.out = Ret(call.rows[Oldest(Qualifying)])

\* C14 as amended: the element returned is the oldest of those old enough
\* exactly when one element only is old enough (otherwise it is the most
\* recent of them); for the example series horizon 1m gives (d-40, 1.0)
\* and horizon today gives (d, 1.3).
C14_OldestOnlyWhenAlone ==
  /\ (Resolved /\ call.h \in {"1w", "1m"} /\ Len(call.rows) >= 1
               /\ Qualifying # {}) =>
       ((call.out = Ret(call.rows[Oldest(Qualifying)]))
          <=> (Cardinality(Qualifying) = 1))
  /\ (Resolved /\ call.rows = ExampleSeries /\ call.h = "1m") =>
       call.out = Ret([date |-> 0, value |-> 100])
  /\ (Resolved /\ call.rows = ExampleSeries /\ call.h = "today") =>
       call.out = Ret([date |-> 40, value |-> 130])

C14_Witness ==
  /\ call.fn = "pickRowByH" /\ call.rows = ExampleSeries /\ call.h = "1m"
  /\ call.out.date = 0 /\ call.out.value = 100

\* C15: every key of the tenors mapping a provider returns belongs to the
\* closed enumeration of tenor codes.
C15_OnlyEnumeratedTenors ==
  (call.fn \in {"provider_de_yield", "provider_gb_yield"}
     /\ call.out.kind = "yield") =>
    DOMAIN call.out.tenors \subseteq TenorCodes

\* C19: every fetch exchange comes to an end (the fetcher returns or
\* throws), also when the upstream stalls before the status line or within
\* the body, so that the request waiting for it is answered.
C19_EveryFetchSettles == <>(ft.pc \in {"returned", "thrown"})

\* the number of attempts fetchText is allowed
Limit == IF ft.retries = NULL THEN 1 ELSE ft.retries

C25_DemoNeverCached ==
  (Done /\ Supported /\ Caching /\ trace.path = "demo" /\ trace.got # <<>>) =>
    ~(Key \in DOMAIN CACHE /\ CACHE[Key].ts = trace.t0)

\* C23: no extractor or document parser raises on a malformed document:
\* nothing but the refusal of a failed fetch is raised while a provider
\* reads the document it fetched, or while dateFromBoE reads a date cell.
C23_NoParserRaises ==
  (call.fn \in {"provider_jp_yield", "provider_ca_yield", "dateFromBoE"}) =>
    call.raised \in {"none", "Error"}

\* a feed provider answered with observations; the rows whose values it
\* reports
Provided ==
  /\ call.fn \in {"provider_jp_yield", "provider_ca_yield"}
  /\ call.out.kind = "yield"

Reported ==
  {j \in 1..Len(call.rows) : call.rows[j].value = call.out.tenors["10Y"]}

\* C26: for the JP and CA providers and horizon 1w (resp. 1m), the
\* observation whose values are returned is at least 7 (resp. 30) calendar
\* days older than the latest one whenever the series contains such an
\* observation, and is the latest observation otherwise.
C26_HorizonByCalendarDays ==
  (Provided /\ call.h \in {"1w", "1m"}) =>
    IF Qualifying # {}
    THEN Reported # {} /\ Reported \subseteq Qualifying
    ELSE Reported = {Len(call.rows)}

\* C30: asOf is the date of the observation whose values are reported, for
\* the JP provider as for the CA provider.
C30_AsOfIsReportedDate ==
  Provided => \A j \in Reported : call.out.asOf.day = call.rows[j].date

\* an extractor has been called on a text
Extracted == call.fn \in {"parseYieldsRobust", "parseWGBYields", "parseWgbYield"}

\* the text "10Y": "4.55%"
ExampleText == <<[form |-> "json", tenor |-> "10Y", rate |-> 455]>>

\* C22: for the text whose only tenor content is "10Y": "4.55%", the yield
\* extractor returns 4.55 for 10Y and no value for every other tenor.
C22_ExamplePair ==
  (Extracted /\ call.text = ExampleText) =>
    \A t \in TenorSet :
      call.out.tenors[t] = (IF t = "10Y" THEN 455 ELSE NULL)

\* C24: for each tenor the value is the one of the first strategy that
\* yields, in the order proximity, row adjacency, embedded literal; a later
\* strategy counts only when all earlier ones yielded nothing.
C24_FirstStrategyWins ==
  \A t \in TenorSet :
    /\ call.fn = "parseYieldsRobust" =>
         call.out.tenors[t] =
           (IF findNearAliases(call.text, t) # NULL
              THEN findNearAliases(call.text, t)
            ELSE IF tableLike(call.text, t) # NULL THEN tableLike(call.text, t)
            ELSE jsonIsh(call.text, t))
    /\ call.fn = "parseWGBYields" =>
         call.out.tenors[t] = findNearestPercent(call.text, t)
    /\ (call.fn = "parseWgbYield" /\ ~call.out.isNull) =>
         call.out.tenors[t] =
           (IF tableRe(call.text)[t] # NULL THEN tableRe(call.text)[t]
            ELSE jsPairs(call.text)[t])

\* both clients asked for the same key, neither found a fresh entry, and
\* both have their answer
SameKeyRace ==
  /\ rev = "part_000"
  /\ \A c \in Clients : flights[c].pc = "done" /\ flights[c].entry # "fresh"
  /\ flights["A"].q = flights["B"].q

C27_TimestampsNeverDecrease ==
  [][\A k \in DOMAIN CACHE :
       k \in DOMAIN CACHE' /\ CACHE'[k].ts >= CACHE[k].ts]_vars

\* C28: provider_cds5y never derives its answer from a cached page older
\* than 15 minutes: the page it reads the spread from was not older than
\* that when the call started.
C28_NoStalePage ==
  \A c \in Clients :
    (rev = "part_003" /\ flights[c].pc = "done" /\ hasHtml(flights[c].page)) =>
      flights[c].t0 - flights[c].page.ts <= CACHE_TTL_MS

\* C29: a request for a key inserts or replaces at most the entry of that
\* key and leaves every other entry unchanged; a request that is rejected
\* or served from the cache leaves the store unchanged.
C29_OnlyTheRequestedKey ==
  [][/\ \A k \in DOMAIN CACHE \cup DOMAIN CACHE' :
          (k \notin DOMAIN CACHE \/ k \notin DOMAIN CACHE' \/ CACHE'[k] # CACHE[k])
            => \E c \in Clients : flights'[c] # flights[c] /\ flights'[c].q = k
     /\ \A c \in Clients :
          (/\ flights[c].pc = "idle"
           /\ flights'[c].pc = "done"
           /\ (flights'[c].entry = "fresh" \/ flights'[c].resp.statusCode = 400))
            => CACHE' = CACHE]_vars

\* C31: all non-null tenor values of a DE yield curve are observations of
\* one date, the date reported in asOf.
C31_OneDatePerCurve ==
  (call.fn = "provider_de_yield" /\ call.out.kind = "yield") =>
    \A k \in DOMAIN call.out.tenors :
      call.out.tenors[k] # NULL =>
        call.out.tenors[k] = valueAt(call.out.asOf.day)

\* C32: parseWgbYield returns a curve whenever one of its two strategies
\* alone finds at least 5 enumerated tenors in the document, whatever the
\* number of rows the table strategy matched first.
C32_OneStrategySuffices ==
  (call.fn = "parseWgbYield"
     /\ \/ enough_001({t \in TenorSet : tableRe(call.text)[t] # NULL})
        \/ enough_001({t \in TenorSet : jsPairs(call.text)[t] # NULL})) =>
    ~call.out.isNull

\* the text lists several tenors, each once, each label followed by its
\* own percentage ("2 Years 4.55% 10 Years 4.56%")
ListsTenors ==
  /\ Len(call.text) >= 2
  /\ \A i \in DOMAIN call.text : call.text[i].form = "prose"
  /\ \A i, j \in DOMAIN call.text :
       call.text[i].tenor = call.text[j].tenor => i = j

\* C33: for a document that lists several tenor labels, each followed by
\* its own percentage, the value extracted for each tenor is the percentage
\* that follows that tenor's own label.
C33_OwnPercentage ==
  (call.fn \in {"parseYieldsRobust", "parseWGBYields"} /\ ListsTenors) =>
    \A i \in DOMAIN call.text :
      call.out.tenors[call.text[i].tenor] = call.text[i].rate

\* C34: when loadAll was triggered again before an earlier invocation had
\* finished, the chart and the status displayed once all have finished are
\* those of the invocation triggered last.
C34_LatestInvocationShown ==
  (ui.seq > 0 /\ ui.waiting = {}) =>
    (ui.chart.by = ui.seq /\ ui.status.by = ui.seq)

====
